---- MODULE Spec2Model ----
(***************************************************************************)
(* A model of vr-surround-sound-rotation: SurroundRotator (rotation.py),   *)
(* StereoRotator (stereo_rotation.py), StereoTo71Upmixer (upmix.py), the   *)
(* stream callback of AudioIO (audio_io.py), and AudioRotationApp          *)
(* (main.py) with the tracking thread (openvr_tracker.py).                 *)
(*                                                                         *)
(* Numbers.  Samples, gains and radians are fixed-point integers with      *)
(* ONE = 10^8 standing for 1.0; every product and quotient is rounded to   *)
(* the nearest unit, and cos/sin are computed by their Taylor series in    *)
(* that arithmetic (accurate to a few units, i.e. a few 1e-8).  Angles and *)
(* yaws are whole degrees.  Channel indices are the code's (0-based).      *)
(***************************************************************************)
EXTENDS Integers, Sequences, FiniteSets

VARIABLES
    format,          \* SurroundRotator.format: "5.1" or "7.1"
    surround_frame,  \* rotate's argument surround_frame: a sequence of sample-sets
    yaw_degrees,     \* rotate's argument yaw_degrees
    output,          \* the frame returned by rotate(surround_frame, yaw_degrees)
    pans,            \* per output channel, the locals of its _amplitude_pan call
    call2,           \* arguments of a second rotate call: [frame, yaw]
    output2,         \* the frame returned by the second call
    pans2,           \* the _amplitude_pan locals of the second call
    rot_pc,          \* where the rotator scenario stands
    stereo_frame,    \* StereoRotator.rotate's argument stereo_frame
    st_yaw_degrees,  \* StereoRotator.rotate's argument yaw_degrees
    st_locals,       \* the locals of StereoRotator.rotate when it returned
    st_output,       \* the frame returned by StereoRotator.rotate
    st_pc,           \* where the stereo scenario stands
    config,          \* config.py: LFE_CUTOFF_HZ and the two decorrelation delays
    upmixer,         \* the attributes of one StereoTo71Upmixer instance
    up_input,        \* upmix's argument stereo_input of the latest call
    up_output,       \* the frame returned by the latest upmix call
    up_inputs,       \* the blocks given to upmix so far, one after the other
    up_outputs,      \* the blocks returned by upmix so far, one after the other
    up_calls,        \* the number of upmix calls so far
    audio_io,        \* the attributes of one AudioIO instance
    indata,          \* sd_callback's argument indata
    io_status,       \* sd_callback's argument status (set or not)
    io_call,         \* the call of self.callback: its argument and what it did
    outdata,         \* sd_callback's argument outdata, the device's output block
    printed,         \* what the latest sd_callback printed
    prev_printed,    \* what the sd_callback before that printed
    app,             \* the attributes of the AudioRotationApp set by __init__
    tracker_yaw,     \* the tracker's attribute yaw
    tracker_pc,      \* where the tracking thread stands in its loop
    tracker_local,   \* the yaw the tracking thread has computed and not yet stored
    yaw_written,     \* the value of the latest completed assignment to yaw
    smoothed_yaw,    \* AudioRotationApp.smoothed_yaw
    audio_pc,        \* where the audio thread stands in its block
    app_locals,      \* the locals of the latest audio_callback before it rotates
    app_calls,       \* the calls made by the latest audio_callback, in order
    yaw_read,        \* the latest get_yaw() of audio_callback and its circumstances
    app_blocks       \* the number of audio blocks so far

rotVars == <<format, surround_frame, yaw_degrees, output, pans, call2, output2, pans2, rot_pc>>
stVars == <<stereo_frame, st_yaw_degrees, st_locals, st_output, st_pc>>
upVars == <<config, upmixer, up_input, up_output, up_inputs, up_outputs, up_calls>>
ioVars == <<audio_io, indata, io_status, io_call, outdata, printed, prev_printed>>
appVars == <<app, tracker_yaw, tracker_pc, tracker_local, yaw_written, smoothed_yaw,
             audio_pc, app_locals, app_calls, yaw_read, app_blocks>>
vars == <<format, surround_frame, yaw_degrees, output, pans, call2, output2, pans2, rot_pc,
          stereo_frame, st_yaw_degrees, st_locals, st_output, st_pc,
          config, upmixer, up_input, up_output, up_inputs, up_outputs, up_calls,
          audio_io, indata, io_status, io_call, outdata, printed, prev_printed,
          app, tracker_yaw, tracker_pc, tracker_local, yaw_written, smoothed_yaw,
          audio_pc, app_locals, app_calls, yaw_read, app_blocks>>

(***************************************************************************)
(* Bounds of the model.                                                    *)
(***************************************************************************)
\* yaws given to SurroundRotator.rotate range over -MaxYaw .. MaxYaw degrees
MaxYaw == 360
\* yaws given to StereoRotator.rotate range over -StereoMaxYaw .. StereoMaxYaw
StereoMaxYaw == 540

\* the blocks given to upmix have 1 .. MaxBlockLen samples
MaxBlockLen == 2
\* one Upmixer instance is called up to MaxCalls times
MaxCalls == 2

\* the audio thread processes up to MaxAppBlocks blocks
MaxAppBlocks == 2

(***************************************************************************)
(* Fixed-point arithmetic.                                                 *)
(***************************************************************************)
ONE == 10^8
HalfWord == 10^4
\* np.pi, in units of 1/ONE
PiFix == 314159265

Abs(x) == IF x < 0 THEN -x ELSE x
Sgn(x) == IF x < 0 THEN -1 ELSE IF x > 0 THEN 1 ELSE 0

\* a / n for an integer n > 0, rounded to nearest (half away from zero)
DivRound(a, n) == Sgn(a) * ((Abs(a) + n \div 2) \div n)

\* |a| * |b| / ONE rounded to nearest, without leaving 32 bits
MulAbs(a, b) ==
    LET a1 == a \div HalfWord
        a0 == a % HalfWord
        b1 == b \div HalfWord
        b0 == b % HalfWord
    IN  a1 * b1 + ((a1 * b0 + a0 * b1) + (a0 * b0 + ONE \div 2) \div HalfWord) \div HalfWord

\* the product of two fixed-point numbers
MulFix(a, b) == Sgn(a) * Sgn(b) * MulAbs(Abs(a), Abs(b))

\* c * num / den rounded to nearest, for c >= 0, 0 <= num, 0 < den
ScaleRatio(c, num, den) == (c \div den) * num + ((c % den) * num + den \div 2) \div den

\* the tail term + next + ... of an alternating Taylor series in x, x2 = x*x,
\* where term is the term of degree n
RECURSIVE Series(_, _, _)
Series(term, n, x2) ==
    IF term = 0 THEN 0
    ELSE term + Series(-DivRound(MulFix(term, x2), (n + 1) * (n + 2)), n + 2, x2)

\* np.cos(x) and np.sin(x), x in radians, |x| <= pi/2
FixCos(x) == Series(ONE, 0, MulFix(x, x))
FixSin(x) == Series(x, 1, MulFix(x, x))

(***************************************************************************)
(* SurroundRotator                                                         *)
(***************************************************************************)
Formats == {"5.1", "7.1"}
LFE == 3

\* SurroundRotator.num_channels
NumChannels(fmt) == IF fmt = "5.1" THEN 6 ELSE 8
Channels(fmt) == 0 .. (NumChannels(fmt) - 1)

\* a mistyped table: RB at -140
SPEAKER_ANGLES_71_Mistyped == <<30, -30, 0, 0, 110, -110, 150, -140>>
SPEAKER_ANGLES_71 == <<30, -30, 0, 0, 110, -110, 150, -150>>
SPEAKER_ANGLES_51 == <<30, -30, 0, 0, 110, -110>>

\* self.SPEAKER_ANGLES[ch]
SpeakerAngle(fmt, ch) ==
    IF fmt = "5.1" THEN SPEAKER_ANGLES_51[ch + 1] ELSE SPEAKER_ANGLES_71[ch + 1]

\* _angle_distance without its fold to [0, 180]
AngleDistanceNoFold(angle1, angle2) == Abs(angle1 - angle2) % 360

\* _angle_distance
AngleDistance(angle1, angle2) ==
    LET diff == Abs(angle1 - angle2) % 360
    IN  IF diff > 180 THEN 360 - diff ELSE diff

\* spatial_channels that forgets to leave the LFE out
SpatialChannelsWithLFE(fmt) == Channels(fmt)

\* spatial_channels of _amplitude_pan
SpatialChannels(fmt) == {i \in Channels(fmt) : i # LFE}

\* the sorted list with equidistant channels in descending channel order
RECURSIVE SortedChannelTiesLast(_, _, _, _)
SortedChannelTiesLast(fmt, target_angle, S, k) ==
    LET d(ch) == AngleDistance(SpeakerAngle(fmt, ch), target_angle)
        first == CHOOSE ch \in S :
                     \A c \in S : d(ch) < d(c) \/ (d(ch) = d(c) /\ ch >= c)
    IN  IF k = 0 THEN first
        ELSE SortedChannelTiesLast(fmt, target_angle, S \ {first}, k - 1)

\* sorted(spatial_channels, key = distance to target)[k]: the channel at position
\* k of the sorted list. The sort is stable and the list is in ascending channel
\* order, so equidistant channels keep that order. S: the channels not yet placed.
RECURSIVE SortedChannel(_, _, _, _)
SortedChannel(fmt, target_angle, S, k) ==
    LET d(ch) == AngleDistance(SpeakerAngle(fmt, ch), target_angle)
        first == CHOOSE ch \in S :
                     \A c \in S : d(ch) < d(c) \/ (d(ch) = d(c) /\ ch <= c)
    IN  IF k = 0 THEN first ELSE SortedChannel(fmt, target_angle, S \ {first}, k - 1)

\* the weights without the equal-power step: inverse distance weighting only
PanWeightsLinear(dist1, dist2) ==
    LET total_dist == dist1 + dist2
    IN  IF total_dist * 10 < 1 THEN <<ONE, 0>>
        ELSE <<ScaleRatio(ONE, dist2, total_dist), ScaleRatio(ONE, dist1, total_dist)>>

\* the weights with cos and sin exchanged
PanWeightsSwapped(dist1, dist2) ==
    LET total_dist == dist1 + dist2
    IN  IF total_dist * 10 < 1 THEN <<ONE, 0>>
        ELSE LET weight2 == ScaleRatio(ONE, dist1, total_dist)
                 angle_rad == DivRound(MulFix(weight2, PiFix), 2)
             IN  <<FixSin(angle_rad), FixCos(angle_rad)>>

\* the weights taken from the angle of the first channel's share instead of
\* the second's
PanWeightsOtherShare(dist1, dist2) ==
    LET total_dist == dist1 + dist2
    IN  IF total_dist * 10 < 1 THEN <<ONE, 0>>
        ELSE LET weight1 == ScaleRatio(ONE, dist2, total_dist)
                 angle_rad == DivRound(MulFix(weight1, PiFix), 2)
             IN  <<FixCos(angle_rad), FixSin(angle_rad)>>

\* the weights of _amplitude_pan: <<weight1, weight2>>
PanWeights(dist1, dist2) ==
    LET total_dist == dist1 + dist2
    IN  IF total_dist * 10 < 1 THEN <<ONE, 0>>
        ELSE LET weight2 == ScaleRatio(ONE, dist1, total_dist)
                 angle_rad == DivRound(MulFix(weight2, PiFix), 2)
             IN  <<FixCos(angle_rad), FixSin(angle_rad)>>

\* _amplitude_pan up to the blend: the two closest channels, their distances
\* and their weights
AmplitudePan(fmt, target_angle) ==
    LET ch1 == SortedChannel(fmt, target_angle, SpatialChannels(fmt), 0)
        ch2 == SortedChannel(fmt, target_angle, SpatialChannels(fmt), 1)
        dist1 == AngleDistance(SpeakerAngle(fmt, ch1), target_angle)
        dist2 == AngleDistance(SpeakerAngle(fmt, ch2), target_angle)
        w == PanWeights(dist1, dist2)
    IN  [target |-> target_angle, ch1 |-> ch1, ch2 |-> ch2,
         dist1 |-> dist1, dist2 |-> dist2, weight1 |-> w[1], weight2 |-> w[2]]

\* the blend of _amplitude_pan, for one sample-set
Blend(samples, p) == MulFix(samples[p.ch1], p.weight1) + MulFix(samples[p.ch2], p.weight2)

\* rotated_angle of rotate
RotatedAngle(out_angle, yaw) ==
    LET rotated_angle == (out_angle + yaw) % 360
    IN  IF rotated_angle > 180 THEN rotated_angle - 360 ELSE rotated_angle

\* _amplitude_pan tabulated over its two arguments (the same values, computed
\* once per target angle instead of once per call)
PanTable == [fmt \in Formats |-> [t \in -360 .. 360 |-> AmplitudePan(fmt, t)]]

\* the _amplitude_pan calls of rotate, one per output channel but the LFE
RotatePans(fmt, yaw) ==
    [out_channel \in Channels(fmt) \ {LFE} |->
        PanTable[fmt][RotatedAngle(SpeakerAngle(fmt, out_channel), yaw)]]

\* the loop of rotate over the output channels, p being its _amplitude_pan calls
ApplyPans(fmt, frame, p) ==
    [s \in 1 .. Len(frame) |->
        [out_channel \in Channels(fmt) |->
            IF out_channel = LFE THEN frame[s][LFE]
            ELSE Blend(frame[s], p[out_channel])]]

\* SurroundRotator.rotate
Rotate(fmt, frame, yaw) == ApplyPans(fmt, frame, RotatePans(fmt, yaw))

(***************************************************************************)
(* The frames the rotator is given.                                        *)
(***************************************************************************)
\* one sample-set: amp on channel c, silence elsewhere
Impulse(fmt, c, amp) == [ch \in Channels(fmt) |-> IF ch = c THEN amp ELSE 0]
\* one sample-set with a different value in (-1, 1) on every channel
Ramp(fmt) == [ch \in Channels(fmt) |-> ((2 * ch - 7) * ONE) \div 8]
\* and one with other values, of the other sign on the odd channels
Zigzag(fmt) == [ch \in Channels(fmt) |->
                   (IF ch % 2 = 0 THEN 1 ELSE -1) * (((ch + 2) * ONE) \div 10)]

RotatorFrames(fmt) ==
    {<<Impulse(fmt, c, ONE)>> : c \in Channels(fmt)}
        \cup {<<Ramp(fmt), Zigzag(fmt)>>}

\* the mirror of a frame: L<->R, LS<->RS, LB<->RB, C and LFE fixed
MirrorChannel(ch) ==
    CASE ch = 0 -> 1 [] ch = 1 -> 0 [] ch = 4 -> 5 [] ch = 5 -> 4
      [] ch = 6 -> 7 [] ch = 7 -> 6 [] OTHER -> ch
MirrorFrame(fmt, frame) ==
    [s \in 1 .. Len(frame) |-> [ch \in Channels(fmt) |-> frame[s][MirrorChannel(ch)]]]

(***************************************************************************)
(* The rotator's scenario: one call, then a second call that rotates the   *)
(* result back, rotates the mirrored input, or rotates by one degree more. *)
(***************************************************************************)
InitRotator ==
    /\ format \in Formats
    /\ surround_frame \in RotatorFrames(format)
    /\ yaw_degrees \in -MaxYaw .. MaxYaw
    /\ output = <<>>
    /\ pans = <<>>
    /\ call2 = <<>>
    /\ output2 = <<>>
    /\ pans2 = <<>>
    /\ rot_pc = "idle"
    /\ stereo_frame = <<>>
    /\ st_yaw_degrees = 0
    /\ st_locals = <<>>
    /\ st_output = <<>>
    /\ st_pc = "idle"
    /\ config = <<>>
    /\ upmixer = <<>>
    /\ up_input = <<>>
    /\ up_output = <<>>
    /\ up_inputs = <<>>
    /\ up_outputs = <<>>
    /\ up_calls = 0
    /\ audio_io = <<>>
    /\ indata = <<>>
    /\ io_status = FALSE
    /\ io_call = <<>>
    /\ outdata = <<>>
    /\ printed = <<>>
    /\ prev_printed = <<>>
    /\ app = <<>>
    /\ tracker_yaw = 0
    /\ tracker_pc = "stopped"
    /\ tracker_local = 0
    /\ yaw_written = 0
    /\ smoothed_yaw = 0
    /\ audio_pc = "stopped"
    /\ app_locals = <<>>
    /\ app_calls = <<>>
    /\ yaw_read = <<>>
    /\ app_blocks = 0

RotateCall ==
    /\ rot_pc = "idle"
    /\ pans' = RotatePans(format, yaw_degrees)
    /\ output' = ApplyPans(format, surround_frame, pans')
    /\ rot_pc' = "rotated"
    /\ UNCHANGED <<format, surround_frame, yaw_degrees, call2, output2, pans2>>
    /\ UNCHANGED <<stVars, upVars, ioVars, appVars>>

SecondCall(frame, yaw, pc) ==
    /\ rot_pc = "rotated"
    /\ call2' = [frame |-> frame, yaw |-> yaw]
    /\ pans2' = RotatePans(format, yaw)
    /\ output2' = ApplyPans(format, frame, pans2')
    /\ rot_pc' = pc
    /\ UNCHANGED <<format, surround_frame, yaw_degrees, output, pans>>
    /\ UNCHANGED <<stVars, upVars, ioVars, appVars>>

RotateBack == SecondCall(output, -yaw_degrees, "restored")
RotateMirrored == SecondCall(MirrorFrame(format, surround_frame), -yaw_degrees, "mirrored")
RotateOneDegreeOn == SecondCall(surround_frame, yaw_degrees + 1, "stepped")

NextRotator == RotateCall \/ RotateBack \/ RotateMirrored \/ RotateOneDegreeOn

(***************************************************************************)
(* StereoRotator                                                           *)
(***************************************************************************)
\* yaw of StereoRotator.rotate: yaw_degrees normalized to (-180, 180]
StereoNormalize(yaw_deg) ==
    LET yaw == yaw_deg % 360
    IN  IF yaw > 180 THEN yaw - 360 ELSE yaw

\* volume with the rear factor taken over 180 degrees instead of 90
StereoVolumeWideRear(yaw) ==
    LET abs_yaw == Abs(yaw)
    IN  IF abs_yaw > 90
        THEN LET rear_factor == ScaleRatio(ONE, abs_yaw - 90, 180)
             IN  ONE - MulFix(rear_factor, (8 * ONE) \div 10)
        ELSE ONE

\* volume of StereoRotator.rotate, yaw being the normalized yaw
StereoVolume(yaw) ==
    LET abs_yaw == Abs(yaw)
    IN  IF abs_yaw > 90
        THEN LET rear_factor == ScaleRatio(ONE, abs_yaw - 90, 90)
             IN  ONE - MulFix(rear_factor, (8 * ONE) \div 10)
        ELSE ONE

\* pan_yaw mirrored to the front without re-applying the sign of yaw
StereoPanYawUnsigned(yaw) ==
    LET abs_yaw == Abs(yaw)
    IN  IF abs_yaw > 90 THEN 180 - abs_yaw ELSE yaw

\* pan_yaw of StereoRotator.rotate, in degrees
StereoPanYaw(yaw) ==
    LET abs_yaw == Abs(yaw)
    IN  IF abs_yaw > 90
        THEN LET mirrored_yaw == 180 - abs_yaw
             IN  IF yaw < 0 THEN -mirrored_yaw ELSE mirrored_yaw
        ELSE yaw

\* pan over a half circle: -pan_yaw / 180.0, clamped to [-1, 1]
StereoPanHalfCircle(pan_yaw) ==
    LET pan == -Sgn(pan_yaw) * ScaleRatio(ONE, Abs(pan_yaw), 180)
        lower == IF ONE < pan THEN ONE ELSE pan
    IN  IF -ONE > lower THEN -ONE ELSE lower

\* pan of StereoRotator.rotate: -pan_yaw / 90.0, clamped to [-1, 1]
StereoPan(pan_yaw) ==
    LET pan == -Sgn(pan_yaw) * ScaleRatio(ONE, Abs(pan_yaw), 90)
        lower == IF ONE < pan THEN ONE ELSE pan
    IN  IF -ONE > lower THEN -ONE ELSE lower

\* <<left_gain, right_gain>> of StereoRotator.rotate
StereoGains(pan, volume) ==
    LET pan_radians == DivRound(MulFix(pan, PiFix), 4)
        quarter_pi == DivRound(PiFix, 4)
    IN  <<MulFix(FixCos(pan_radians - quarter_pi), volume),
          MulFix(FixCos(pan_radians + quarter_pi), volume)>>

\* StereoRotator.rotate: its locals and the frame it returns
StereoRotate(frame, yaw_deg) ==
    LET yaw == StereoNormalize(yaw_deg)
        volume == StereoVolume(yaw)
        pan_yaw == StereoPanYaw(yaw)
        pan == StereoPan(pan_yaw)
        gains == StereoGains(pan, volume)
        mono(s) == DivRound(frame[s][0] + frame[s][1], 2)
    IN  [yaw |-> yaw, volume |-> volume, pan_yaw |-> pan_yaw, pan |-> pan,
         left_gain |-> gains[1], right_gain |-> gains[2],
         output |-> [s \in 1 .. Len(frame) |->
                        [ch \in 0 .. 1 |-> MulFix(mono(s), gains[ch + 1])]]]

\* a stereo sample-set
Stereo(l, r) == [ch \in 0 .. 1 |-> IF ch = 0 THEN l ELSE r]

\* the frames the stereo rotator is given: a mono signal in both channels, and
\* two frames whose channels differ
StereoFrames ==
    { <<Stereo((3 * ONE) \div 10, (3 * ONE) \div 10), Stereo(-ONE \div 5, -ONE \div 5)>>,
      <<Stereo(ONE, 0), Stereo(-ONE \div 2, ONE \div 4)>>,
      <<Stereo(0, ONE)>> }

InitStereo ==
    /\ stereo_frame \in StereoFrames
    /\ st_yaw_degrees \in -StereoMaxYaw .. StereoMaxYaw
    /\ st_locals = <<>>
    /\ st_output = <<>>
    /\ st_pc = "idle"
    /\ format = "7.1"
    /\ surround_frame = <<>>
    /\ yaw_degrees = 0
    /\ output = <<>>
    /\ pans = <<>>
    /\ call2 = <<>>
    /\ output2 = <<>>
    /\ pans2 = <<>>
    /\ rot_pc = "idle"
    /\ config = <<>>
    /\ upmixer = <<>>
    /\ up_input = <<>>
    /\ up_output = <<>>
    /\ up_inputs = <<>>
    /\ up_outputs = <<>>
    /\ up_calls = 0
    /\ audio_io = <<>>
    /\ indata = <<>>
    /\ io_status = FALSE
    /\ io_call = <<>>
    /\ outdata = <<>>
    /\ printed = <<>>
    /\ prev_printed = <<>>
    /\ app = <<>>
    /\ tracker_yaw = 0
    /\ tracker_pc = "stopped"
    /\ tracker_local = 0
    /\ yaw_written = 0
    /\ smoothed_yaw = 0
    /\ audio_pc = "stopped"
    /\ app_locals = <<>>
    /\ app_calls = <<>>
    /\ yaw_read = <<>>
    /\ app_blocks = 0

StereoRotateCall ==
    /\ st_pc = "idle"
    /\ st_locals' = [f \in {"yaw", "volume", "pan_yaw", "pan", "left_gain", "right_gain"} |->
                        StereoRotate(stereo_frame, st_yaw_degrees)[f]]
    /\ st_output' = StereoRotate(stereo_frame, st_yaw_degrees).output
    /\ st_pc' = "done"
    /\ UNCHANGED <<stereo_frame, st_yaw_degrees>>
    /\ UNCHANGED <<rotVars, upVars, ioVars, appVars>>

NextStereo == StereoRotateCall

(***************************************************************************)
(* StereoTo71Upmixer                                                       *)
(***************************************************************************)
\* the values config.py ships with
DefaultConfig ==
    [LFE_CUTOFF_HZ |-> 80, SURROUND_DECORRELATION_MS |-> 5, REAR_DECORRELATION_MS |-> 10]

\* the configurations the upmixer is built under: the shipped one, one with
\* another cutoff and one with both delays doubled
Configs ==
    { DefaultConfig,
      [DefaultConfig EXCEPT !.LFE_CUTOFF_HZ = 120],
      [DefaultConfig EXCEPT !.SURROUND_DECORRELATION_MS = 10,
                            !.REAR_DECORRELATION_MS = 20] }

\* the sample rates the upmixer is built for; they make the delays 0 and 1
\* samples, 1 and 2 samples, and 2 and 4 samples
SampleRates == {180, 200, 400}

\* surround_delay_samples of _setup_decorrelation_filters: int(0.005 * sample_rate)
SurroundDelaySamples(sample_rate) == (5 * sample_rate) \div 1000

\* rear_delay_samples of _setup_decorrelation_filters: int(0.010 * sample_rate)
RearDelaySamples(sample_rate) == (10 * sample_rate) \div 1000

\* _create_lfe_filter: the arguments of signal.butter(4, cutoff / nyquist, 'low')
LfeFilter(sample_rate) ==
    [order |-> 4, cutoff |-> 80, nyquist |-> sample_rate \div 2]

\* StereoTo71Upmixer.__init__
NewUpmixer(sample_rate, fmt) ==
    [sample_rate |-> sample_rate,
     format |-> fmt,
     num_channels |-> IF fmt = "5.1" THEN 6 ELSE 8,
     surround_delay_samples |-> SurroundDelaySamples(sample_rate),
     rear_delay_samples |-> RearDelaySamples(sample_rate),
     lfe_filter |-> LfeFilter(sample_rate)]

\* the signal as it is, not delayed
Undelayed(signal, delay) == signal

\* np.concatenate([np.zeros(delay), signal])[:num_samples]
Delayed(signal, delay) ==
    [s \in 1 .. Len(signal) |-> IF s <= delay THEN 0 ELSE signal[s - delay]]

\* the sum of the two channels, not halved
CenterSum(left, right) == left + right

\* (left + right) * 0.5
Center(left, right) == DivRound(left + right, 2)

\* sample s of signal.sosfilt(self.lfe_filter, lfe_sum): the filter starts each
\* block from rest, so the sample is determined by the filter, the block and s
Sosfilt(lfe_filter, lfe_sum, s) == [sosfilt |-> lfe_filter, x |-> lfe_sum, n |-> s]

\* StereoTo71Upmixer.upmix
Upmix(self, stereo_input) ==
    LET num_samples == Len(stereo_input)
        left == [s \in 1 .. num_samples |-> stereo_input[s][0]]
        right == [s \in 1 .. num_samples |-> stereo_input[s][1]]
        lfe_sum == [s \in 1 .. num_samples |-> Center(left[s], right[s])]
        diff_left == [s \in 1 .. num_samples |-> left[s] - right[s]]
        diff_right == [s \in 1 .. num_samples |-> right[s] - left[s]]
        ls_signal == Delayed(diff_left, self.surround_delay_samples)
        rs_signal == Delayed(diff_right, self.surround_delay_samples)
        lb_signal == Delayed([s \in 1 .. num_samples |-> -diff_left[s]],
                             self.rear_delay_samples)
        rb_signal == Delayed([s \in 1 .. num_samples |-> -diff_right[s]],
                             self.rear_delay_samples)
        rear(signal, s) == IF self.format = "7.1" THEN MulFix(signal[s], ONE \div 2) ELSE 0
    IN  [s \in 1 .. num_samples |->
            [ch \in 0 .. self.num_channels - 1 |->
                CASE ch = 0 -> left[s]
                  [] ch = 1 -> right[s]
                  [] ch = 2 -> Center(left[s], right[s])
                  [] ch = 3 -> Sosfilt(self.lfe_filter, lfe_sum, s)
                  [] ch = 4 -> MulFix(ls_signal[s], (7 * ONE) \div 10)
                  [] ch = 5 -> MulFix(rs_signal[s], (7 * ONE) \div 10)
                  [] ch = 6 -> rear(lb_signal, s)
                  [] ch = 7 -> rear(rb_signal, s)]]

\* the sample-sets of the blocks given to upmix: hard left at full scale, and
\* one with a negative left and a smaller positive right
UpmixSamples == {Stereo(ONE, 0), Stereo(-ONE \div 2, ONE \div 4)}

\* blocks whose two channels are identical, one of each length
MonoBlocks ==
    {[s \in 1 .. n |-> Stereo((s * ONE) \div 4, (s * ONE) \div 4)] : n \in 1 .. MaxBlockLen}

\* the blocks given to upmix: every sequence of 1 .. MaxBlockLen such samples,
\* and the blocks with identical channels
StereoBlocks == UNION {[1 .. n -> UpmixSamples] : n \in 1 .. MaxBlockLen} \cup MonoBlocks

(***************************************************************************)
(* The upmixer's scenario: one instance, called block after block.         *)
(***************************************************************************)
InitUpmix ==
    /\ config \in Configs
    /\ upmixer \in {NewUpmixer(sample_rate, fmt) : sample_rate \in SampleRates, fmt \in Formats}
    /\ up_input = <<>>
    /\ up_output = <<>>
    /\ up_inputs = <<>>
    /\ up_outputs = <<>>
    /\ up_calls = 0
    /\ format = "7.1"
    /\ surround_frame = <<>>
    /\ yaw_degrees = 0
    /\ output = <<>>
    /\ pans = <<>>
    /\ call2 = <<>>
    /\ output2 = <<>>
    /\ pans2 = <<>>
    /\ rot_pc = "idle"
    /\ stereo_frame = <<>>
    /\ st_yaw_degrees = 0
    /\ st_locals = <<>>
    /\ st_output = <<>>
    /\ st_pc = "idle"
    /\ audio_io = <<>>
    /\ indata = <<>>
    /\ io_status = FALSE
    /\ io_call = <<>>
    /\ outdata = <<>>
    /\ printed = <<>>
    /\ prev_printed = <<>>
    /\ app = <<>>
    /\ tracker_yaw = 0
    /\ tracker_pc = "stopped"
    /\ tracker_local = 0
    /\ yaw_written = 0
    /\ smoothed_yaw = 0
    /\ audio_pc = "stopped"
    /\ app_locals = <<>>
    /\ app_calls = <<>>
    /\ yaw_read = <<>>
    /\ app_blocks = 0

UpmixCall ==
    /\ up_calls < MaxCalls
    /\ \E block \in StereoBlocks :
        /\ up_input' = block
        /\ up_output' = Upmix(upmixer, block)
        /\ up_inputs' = up_inputs \o block
        /\ up_outputs' = up_outputs \o up_output'
    /\ up_calls' = up_calls + 1
    /\ UNCHANGED <<config, upmixer>>
    /\ UNCHANGED <<rotVars, stVars, ioVars, appVars>>

NextUpmix == UpmixCall

(***************************************************************************)
(* AudioIO: the stream callback sd_callback                                *)
(***************************************************************************)
\* frame.shape[1] of a frame with at least one row
NumCols(frame) == Cardinality(DOMAIN frame[1])

\* np.zeros((frames, channels))
Zeros(frames, channels) == [s \in 1 .. frames |-> [ch \in 0 .. channels - 1 |-> 0]]

\* the stereo frame sd_callback hands to the processing callback: a mono input
\* is duplicated, otherwise the first two input channels are taken
StereoOf(data) ==
    [s \in 1 .. Len(data) |->
        IF NumCols(data) < 2 THEN Stereo(data[s][0], data[s][0])
        ELSE Stereo(data[s][0], data[s][1])]

\* numpy accepts dst[:] = src for a dst of `frames` rows when src has as many
\* rows or a single row, which it repeats; otherwise it raises ValueError
CanAssign(src, frames) == Len(src) = frames \/ Len(src) = 1
AssignedRow(src, frames, s) == IF Len(src) = frames THEN src[s] ELSE src[1]

\* sd_callback from the return (or the exception) of self.callback on:
\* the block left in outdata and what was printed
SdCallback(output_channels, frames, status, call) ==
    LET on_status == IF status THEN <<"status">> ELSE <<>>
    IN  IF call.raised
        THEN [outdata |-> Zeros(frames, output_channels),
              printed |-> Append(on_status, "error")]
        ELSE LET result == call.result
                 cols == NumCols(result)
                 on_shape == IF cols # output_channels
                             THEN Append(on_status, "warning") ELSE on_status
             IN  IF CanAssign(result, frames)
                 THEN [outdata |->
                          [s \in 1 .. frames |->
                              [ch \in 0 .. output_channels - 1 |->
                                  IF ch < cols THEN AssignedRow(result, frames, s)[ch]
                                  ELSE 0]],
                       printed |-> on_shape]
                 ELSE [outdata |-> Zeros(frames, output_channels),
                       printed |-> Append(on_shape, "error")]

\* the block the device delivers: a different value in every cell
InputBlock(frames, channels) ==
    [s \in 1 .. frames |-> [ch \in 0 .. channels - 1 |-> (2 * s + ch) * (ONE \div 10)]]

\* a frame a processing callback may return: a different non-zero value in
\* every cell
ResultFrame(rows, cols) ==
    [s \in 1 .. rows |-> [ch \in 0 .. cols - 1 |-> (10 * s + ch) * (ONE \div 100)]]

(***************************************************************************)
(* The stream's scenario: one AudioIO whose processing callback returns    *)
(* frames of the right and of wrong shapes, or raises.                     *)
(***************************************************************************)
InitAudioIO ==
    /\ audio_io \in {[block_size |-> block_size, output_channels |-> output_channels] :
                        block_size \in 1 .. MaxBlockLen, output_channels \in {2, 6, 8}}
    /\ indata = <<>>
    /\ io_status = FALSE
    /\ io_call = <<>>
    /\ outdata = <<>>
    /\ printed = <<>>
    /\ prev_printed = <<>>
    /\ format = "7.1"
    /\ surround_frame = <<>>
    /\ yaw_degrees = 0
    /\ output = <<>>
    /\ pans = <<>>
    /\ call2 = <<>>
    /\ output2 = <<>>
    /\ pans2 = <<>>
    /\ rot_pc = "idle"
    /\ stereo_frame = <<>>
    /\ st_yaw_degrees = 0
    /\ st_locals = <<>>
    /\ st_output = <<>>
    /\ st_pc = "idle"
    /\ config = <<>>
    /\ upmixer = <<>>
    /\ up_input = <<>>
    /\ up_output = <<>>
    /\ up_inputs = <<>>
    /\ up_outputs = <<>>
    /\ up_calls = 0
    /\ app = <<>>
    /\ tracker_yaw = 0
    /\ tracker_pc = "stopped"
    /\ tracker_local = 0
    /\ yaw_written = 0
    /\ smoothed_yaw = 0
    /\ audio_pc = "stopped"
    /\ app_locals = <<>>
    /\ app_calls = <<>>
    /\ yaw_read = <<>>
    /\ app_blocks = 0

\* one invocation of sd_callback by the stream
SdCallbackCall ==
    /\ \E in_channels \in 1 .. 2, status \in BOOLEAN, raised \in BOOLEAN,
          rows \in {1, audio_io.block_size, audio_io.block_size + 1},
          cols \in {audio_io.output_channels - 1, audio_io.output_channels,
                    audio_io.output_channels + 1} :
        LET data == InputBlock(audio_io.block_size, in_channels)
            call == [stereo |-> StereoOf(data), raised |-> raised,
                     result |-> IF raised THEN <<>> ELSE ResultFrame(rows, cols)]
            done == SdCallback(audio_io.output_channels, audio_io.block_size, status, call)
        IN  /\ indata' = data
            /\ io_status' = status
            /\ io_call' = call
            /\ outdata' = done.outdata
            /\ printed' = done.printed
    /\ prev_printed' = printed
    /\ UNCHANGED audio_io
    /\ UNCHANGED <<rotVars, stVars, upVars, appVars>>

NextAudioIO == SdCallbackCall

(***************************************************************************)
(* AudioRotationApp and its tracker                                        *)
(***************************************************************************)
\* the values of config.SURROUND_FORMAT
SurroundFormats == {"stereo", "5.1", "7.1"}

\* eight output channels whatever the format
OutputChannelsAlwaysEight(surround_format) == 8

\* output_channels of AudioRotationApp.__init__
OutputChannels(surround_format) ==
    IF surround_format = "stereo" THEN 2
    ELSE IF surround_format = "5.1" THEN 6 ELSE 8

\* `argument or default` of __init__; an argument is {} for None and {v} for
\* the value v, and None and 0 are the arguments Python takes as false
OrDefault(argument, default) ==
    IF argument = {} \/ argument = {0} THEN default ELSE CHOOSE v \in argument : TRUE

\* AudioRotationApp.__init__; the smoothing factor is in hundredths, and the
\* argument it was called with is kept beside the attribute it sets
NewApp(surround_format, sample_rate, block_size, smoothing_factor) ==
    LET rate == OrDefault(sample_rate, 48000)
        is_stereo_mode == surround_format = "stereo"
    IN  [sample_rate |-> rate,
         block_size |-> OrDefault(block_size, 512),
         smoothing_factor |-> OrDefault(smoothing_factor, 85),
         supplied_smoothing_factor |-> smoothing_factor,
         is_stereo_mode |-> is_stereo_mode,
         output_channels |-> OutputChannels(surround_format),
         upmixer |-> IF is_stereo_mode THEN <<>> ELSE NewUpmixer(rate, surround_format),
         rotator |-> IF is_stereo_mode THEN [class |-> "StereoRotator"]
                     ELSE [class |-> "SurroundRotator", format |-> surround_format]]

\* _smooth_yaw: the exponential moving average, to the nearest degree
SmoothYaw(smoothing_factor, smoothed, new_yaw) ==
    DivRound(smoothing_factor * smoothed + (100 - smoothing_factor) * new_yaw, 100)

\* the rotator given the yaw as the tracker returned it
RotatorYawRaw(current_yaw, smoothed) == current_yaw

\* the yaw audio_callback gives to self.rotator.rotate
RotatorYaw(current_yaw, smoothed) == smoothed

\* audio_callback up to its call of the rotator: the yaw read, the new
\* smoothed_yaw, the yaw meant for the rotator and the upmixed frame
CallbackLocals(self, self_smoothed_yaw, current_yaw, stereo_input) ==
    LET smoothed == SmoothYaw(self.smoothing_factor, self_smoothed_yaw, current_yaw)
    IN  [current_yaw |-> current_yaw,
         before |-> self_smoothed_yaw,
         smoothed_yaw |-> smoothed,
         rotator_yaw |-> RotatorYaw(current_yaw, smoothed),
         surround |-> IF self.is_stereo_mode THEN <<>>
                      ELSE Upmix(self.upmixer, stereo_input)]

\* rotated of audio_callback
CallbackRotate(self, stereo_input, locals) ==
    IF self.is_stereo_mode THEN StereoRotate(stereo_input, locals.rotator_yaw).output
    ELSE Rotate(self.rotator.format, locals.surround, locals.rotator_yaw)

\* the calls audio_callback makes, in their order
CallbackCalls(self, stereo_input, locals, rotated) ==
    <<[fn |-> "get_yaw", returned |-> locals.current_yaw],
      [fn |-> "_smooth_yaw", new_yaw |-> locals.current_yaw,
       before |-> locals.before, returned |-> locals.smoothed_yaw]>>
    \o (IF self.is_stereo_mode
        THEN <<[fn |-> "rotate", frame |-> stereo_input, yaw |-> locals.rotator_yaw,
                returned |-> rotated]>>
        ELSE <<[fn |-> "upmix", stereo_frame |-> stereo_input,
                returned |-> locals.surround],
               [fn |-> "rotate", frame |-> locals.surround, yaw |-> locals.rotator_yaw,
                returned |-> rotated]>>)

\* self.yaw = ...: the assignment of the tracking loops, one store of a
\* reference to an already computed float
StoreYawTorn(old_yaw, new_yaw) == (old_yaw + new_yaw) \div 2
StoreYaw(old_yaw, new_yaw) == new_yaw

\* the yaws the tracking thread computes: one of the range [0, 360) of
\* matrix_to_yaw and of the rotate mode, one of the sweep mode's negative half
TrackerYaws == {100, -135}

\* the stereo blocks the device delivers to the app, of block_size samples
AppBlocks(block_size) ==
    { [s \in 1 .. block_size |-> [ch \in 0 .. 1 |-> IF ch = 0 THEN ONE ELSE 0]],
      [s \in 1 .. block_size |->
          [ch \in 0 .. 1 |-> IF s = 1 /\ ch = 0 THEN -ONE \div 2 ELSE ONE \div 4]] }

(***************************************************************************)
(* The application's scenario: the tracking thread updates the yaw while   *)
(* the audio thread processes block after block.                           *)
(***************************************************************************)
InitApp ==
    /\ app \in {NewApp(surround_format, sample_rate, {block_size}, smoothing_factor) :
                   surround_format \in SurroundFormats, sample_rate \in {{}, {200}},
                   block_size \in 1 .. MaxBlockLen,
                   smoothing_factor \in {{}, {0}, {50}, {100}}}
    /\ audio_io = [block_size |-> app.block_size, output_channels |-> app.output_channels]
    /\ tracker_yaw = 0
    /\ tracker_pc = "compute"
    /\ tracker_local = 0
    /\ yaw_written = 0
    /\ smoothed_yaw = 0
    /\ audio_pc = "get_yaw"
    /\ app_locals = <<>>
    /\ app_calls = <<>>
    /\ yaw_read = <<>>
    /\ app_blocks = 0
    /\ indata = <<>>
    /\ io_status = FALSE
    /\ io_call = <<>>
    /\ outdata = <<>>
    /\ printed = <<>>
    /\ prev_printed = <<>>
    /\ format = "7.1"
    /\ surround_frame = <<>>
    /\ yaw_degrees = 0
    /\ output = <<>>
    /\ pans = <<>>
    /\ call2 = <<>>
    /\ output2 = <<>>
    /\ pans2 = <<>>
    /\ rot_pc = "idle"
    /\ stereo_frame = <<>>
    /\ st_yaw_degrees = 0
    /\ st_locals = <<>>
    /\ st_output = <<>>
    /\ st_pc = "idle"
    /\ config = <<>>
    /\ upmixer = <<>>
    /\ up_input = <<>>
    /\ up_output = <<>>
    /\ up_inputs = <<>>
    /\ up_outputs = <<>>
    /\ up_calls = 0

\* the tracking loop evaluates the new yaw (matrix_to_yaw(mat), or the
\* expression of the test modes)
TrackerCompute ==
    /\ tracker_pc = "compute"
    /\ \E new_yaw \in TrackerYaws : tracker_local' = new_yaw
    /\ tracker_pc' = "store"
    /\ UNCHANGED <<app, tracker_yaw, yaw_written, smoothed_yaw, audio_pc, app_locals,
                   app_calls, yaw_read, app_blocks>>
    /\ UNCHANGED <<rotVars, stVars, upVars, ioVars>>

\* and assigns it to self.yaw
TrackerStore ==
    /\ tracker_pc = "store"
    /\ tracker_yaw' = StoreYaw(tracker_yaw, tracker_local)
    /\ yaw_written' = tracker_local
    /\ tracker_pc' = "compute"
    /\ UNCHANGED <<app, tracker_local, smoothed_yaw, audio_pc, app_locals, app_calls,
                   yaw_read, app_blocks>>
    /\ UNCHANGED <<rotVars, stVars, upVars, ioVars>>

\* the audio thread is given a block: sd_callback calls audio_callback, which
\* reads the yaw from the tracker
AudioGetYaw ==
    /\ audio_pc = "get_yaw"
    /\ app_blocks < MaxAppBlocks
    /\ \E data \in AppBlocks(audio_io.block_size) : indata' = data
    /\ yaw_read' = [value |-> tracker_yaw, latest_write |-> yaw_written,
                    tracker_pc |-> tracker_pc, pending |-> tracker_local]
    /\ audio_pc' = "process"
    /\ UNCHANGED <<app, tracker_yaw, tracker_pc, tracker_local, yaw_written, smoothed_yaw,
                   app_locals, app_calls, app_blocks>>
    /\ UNCHANGED <<audio_io, io_status, io_call, outdata, printed, prev_printed>>
    /\ UNCHANGED <<rotVars, stVars, upVars>>

\* the rest of the block: audio_callback smooths the yaw read, upmixes and
\* rotates, and sd_callback writes the result to the device's block
AudioProcess ==
    /\ audio_pc = "process"
    /\ app_locals' = CallbackLocals(app, smoothed_yaw, yaw_read.value, StereoOf(indata))
    /\ smoothed_yaw' = app_locals'.smoothed_yaw
    /\ io_call' = [stereo |-> StereoOf(indata), raised |-> FALSE,
                   result |-> CallbackRotate(app, StereoOf(indata), app_locals')]
    /\ app_calls' = CallbackCalls(app, io_call'.stereo, app_locals', io_call'.result)
    /\ outdata' = SdCallback(audio_io.output_channels, audio_io.block_size,
                             FALSE, io_call').outdata
    /\ printed' = SdCallback(audio_io.output_channels, audio_io.block_size,
                             FALSE, io_call').printed
    /\ prev_printed' = printed
    /\ app_blocks' = app_blocks + 1
    /\ audio_pc' = "get_yaw"
    /\ UNCHANGED <<app, tracker_yaw, tracker_pc, tracker_local, yaw_written, yaw_read>>
    /\ UNCHANGED <<audio_io, indata, io_status>>
    /\ UNCHANGED <<rotVars, stVars, upVars>>

NextApp == TrackerCompute \/ TrackerStore \/ AudioGetYaw \/ AudioProcess

(***************************************************************************)
(* Tolerances.                                                             *)
(***************************************************************************)
\* 1e-4 and 1e-6
Tol4 == ONE \div 10^4
Tol6 == ONE \div 10^6
\* 0.1, the largest change of a weight over one degree that counts as smooth
Tenth == ONE \div 10

\* the weight with which source channel i enters the output whose pan is p
WeightOf(p, i) ==
    (IF p.ch1 = i THEN p.weight1 ELSE 0) + (IF p.ch2 = i THEN p.weight2 ELSE 0)

Samples(frame) == 1 .. Len(frame)

(***************************************************************************)
(* Claims about SurroundRotator (checked under SpecRotator).               *)
(***************************************************************************)

\* C1: in both formats, for every yaw and frame, rotate copies input channel 3
\* (LFE) to output channel 3 sample for sample; no _amplitude_pan call, made for
\* a non-LFE output only, ever selects channel 3 as a source, so a frame that is
\* silent but for its LFE gives silence on every other output.
C1_LfeBypass ==
    /\ rot_pc # "idle" =>
        /\ \A s \in Samples(output) : output[s][LFE] = surround_frame[s][LFE]
        /\ DOMAIN pans = Channels(format) \ {LFE}
        /\ \A o \in DOMAIN pans : pans[o].ch1 # LFE /\ pans[o].ch2 # LFE
        /\ (\A s \in Samples(surround_frame) : \A ch \in Channels(format) \ {LFE} :
                surround_frame[s][ch] = 0)
            => \A s \in Samples(output) : \A ch \in Channels(format) \ {LFE} :
                    output[s][ch] = 0
    /\ rot_pc \in {"restored", "mirrored", "stepped"} =>
        /\ \A s \in Samples(output2) : output2[s][LFE] = call2.frame[s][LFE]
        /\ \A o \in DOMAIN pans2 : pans2[o].ch1 # LFE /\ pans2[o].ch2 # LFE

\* a 7.1 frame with only its LFE sounding, rotated by 10 degrees (C's target is
\* then 10, as near to the LFE's nominal 0 as to C's)
C1_Witness ==
    /\ rot_pc = "rotated" /\ format = "7.1" /\ yaw_degrees = 10
    /\ surround_frame = <<Impulse("7.1", LFE, ONE)>>
    /\ output = surround_frame

\* C2: in both formats, rotate(frame, 0) returns every non-LFE channel equal to
\* its input: each output channel selects itself first with weight 1 and gives
\* its second channel the weight 0.
C2_YawZeroIdentity ==
    (rot_pc = "rotated" /\ yaw_degrees = 0) =>
        \A ch \in Channels(format) \ {LFE} :
            /\ pans[ch].ch1 = ch
            /\ pans[ch].weight1 = ONE
            /\ pans[ch].weight2 = 0
            /\ \A s \in Samples(output) : output[s][ch] = surround_frame[s][ch]

C2_Witness ==
    /\ rot_pc = "rotated" /\ yaw_degrees = 0 /\ format = "5.1"
    /\ Len(surround_frame) = 2
    /\ surround_frame[1][4] # surround_frame[1][5]
    /\ output = surround_frame

\* C3 as claimed: for every yaw v and unit-bounded frame x, rotate(rotate(x, v), -v)
\* equals x on every non-LFE channel up to 1e-4 per sample.
C3_RoundTripAnyYaw ==
    rot_pc = "restored" =>
        \A s \in Samples(output2) : \A ch \in Channels(format) \ {LFE} :
            Abs(output2[s][ch] - surround_frame[s][ch]) <= Tol4

\* C3 (amended): for every yaw v that is a multiple of 360 degrees and every
\* unit-bounded frame x, rotate(rotate(x, v), -v) equals x on every non-LFE
\* channel (exactly, hence within 1e-4).
C3_RoundTripFullTurns ==
    (rot_pc = "restored" /\ yaw_degrees % 360 = 0) =>
        \A s \in Samples(output2) : \A ch \in Channels(format) \ {LFE} :
            output2[s][ch] = surround_frame[s][ch]

C3_Witness ==
    /\ rot_pc = "restored" /\ yaw_degrees = 360 /\ format = "7.1"
    /\ call2.yaw = -360
    /\ Len(surround_frame) = 2
    /\ output2 = surround_frame

\* C4: with M the mirror L<->R, LS<->RS, LB<->RB (C, LFE fixed), in both formats,
\* for every yaw v and frame x: rotate(M(x), -v) = M(rotate(x, v)) on every
\* channel, sample for sample, also where two speakers are equidistant from the
\* target (the tie going to the lower channel index) and at the +/-180 wrap.
C4_MirrorSymmetry ==
    rot_pc = "mirrored" =>
        \A s \in Samples(output2) : \A ch \in Channels(format) :
            output2[s][ch] = output[s][MirrorChannel(ch)]

\* 7.1 at yaw 30: LB's target is 180, where LB and RB are equidistant, and C's
\* is 30
C4_Witness ==
    /\ rot_pc = "mirrored" /\ format = "7.1" /\ yaw_degrees = 30
    /\ pans[6].target = 180 /\ pans[6].dist1 = pans[6].dist2
    /\ pans2[7].target = 180
    /\ Len(surround_frame) = 2
    /\ surround_frame[1][6] # surround_frame[1][7]

\* C5: in both formats, for every output channel and yaw, the weights of
\* _amplitude_pan satisfy weight1^2 + weight2^2 = 1 within 1e-6: they are (1, 0)
\* when d1 + d2 < 0.1, and otherwise (cos(t*pi/2), sin(t*pi/2)) with
\* t = d1/(d1+d2) in [0, 1/2], d1 <= d2 being the distances of the first and
\* second selected speaker to the target.
C5_ConstantPower ==
    rot_pc # "idle" =>
        \A o \in DOMAIN pans :
            LET p == pans[o]
                total == p.dist1 + p.dist2
            IN  /\ p.dist1 = AngleDistance(SpeakerAngle(format, p.ch1), p.target)
                /\ p.dist2 = AngleDistance(SpeakerAngle(format, p.ch2), p.target)
                /\ p.dist1 <= p.dist2
                /\ Abs(MulFix(p.weight1, p.weight1) + MulFix(p.weight2, p.weight2) - ONE)
                       <= Tol6
                /\ IF total * 10 < 1
                   THEN p.weight1 = ONE /\ p.weight2 = 0
                   ELSE LET x == ScaleRatio(PiFix, p.dist1, 2 * total)
                        IN  /\ 2 * p.dist1 <= total
                            /\ Abs(p.weight1 - FixCos(x)) <= Tol6
                            /\ Abs(p.weight2 - FixSin(x)) <= Tol6
                            /\ 0 <= p.weight2 /\ p.weight2 <= p.weight1

\* 7.1 at yaw 30: the L output's target is 60, d1 = 30 (L), d2 = 50 (LS)
C5_Witness ==
    /\ rot_pc = "rotated" /\ format = "7.1" /\ yaw_degrees = 30
    /\ pans[0].target = 60 /\ pans[0].dist1 = 30 /\ pans[0].dist2 = 50
    /\ pans[0].weight2 > 0 /\ pans[0].weight1 < ONE

\* C6: in both formats, for every output channel, over the whole circle, no
\* source channel's weight changes by more than 0.1 between two yaws one degree
\* apart.
C6_WeightsContinuous ==
    rot_pc = "stepped" =>
        \A o \in DOMAIN pans : \A i \in Channels(format) :
            Abs(WeightOf(pans2[o], i) - WeightOf(pans[o], i)) <= Tenth

\* the two channels at the back of the layout
RearPair(fmt) == IF fmt = "5.1" THEN {4, 5} ELSE {6, 7}
LeftRear(fmt) == IF fmt = "5.1" THEN 4 ELSE 6
RightRear(fmt) == IF fmt = "5.1" THEN 5 ELSE 7

\* C7: in both formats, for every output channel, every normalized target lies
\* in (-180, 180]; when the target steps 179 -> 180 or 180 -> -179 the same two
\* rear speakers are selected before and after, every source channel's weight
\* changes by less than 0.1, the left rear speaker weighs more at 179, the right
\* rear one more at -179, and the two weigh the same at 180.
C7_WrapSmooth ==
    rot_pc = "stepped" =>
        \A o \in DOMAIN pans :
            LET p == pans[o]
                q == pans2[o]
            IN  /\ p.target \in -179 .. 180
                /\ q.target \in -179 .. 180
                /\ p.target \in {179, 180} =>
                    /\ q.target = IF p.target = 179 THEN 180 ELSE -179
                    /\ {p.ch1, p.ch2} = RearPair(format)
                    /\ {q.ch1, q.ch2} = RearPair(format)
                    /\ \A i \in Channels(format) :
                           Abs(WeightOf(q, i) - WeightOf(p, i)) < Tenth
                    /\ p.target = 179 =>
                           WeightOf(p, LeftRear(format)) > WeightOf(p, RightRear(format))
                    /\ q.target = -179 =>
                           WeightOf(q, RightRear(format)) > WeightOf(q, LeftRear(format))
                    /\ p.target = 180 =>
                           WeightOf(p, LeftRear(format)) = WeightOf(p, RightRear(format))

\* 7.1, yaw 30 -> 31: LB's target goes from 180 to -179
C7_Witness ==
    /\ rot_pc = "stepped" /\ format = "7.1" /\ yaw_degrees = 30
    /\ pans[6].target = 180 /\ pans2[6].target = -179
    /\ pans[6].ch1 = 6 /\ pans2[6].ch1 = 7

\* the _amplitude_pan calls of the rotate calls made so far
PanCalls ==
    {pans[out_channel] : out_channel \in DOMAIN pans}
        \cup {pans2[out_channel] : out_channel \in DOMAIN pans2}

\* channel a comes before channel b in the order of distance from the target,
\* the lower channel index first among equidistant channels
CloserTo(fmt, target, a, b) ==
    LET da == AngleDistance(SpeakerAngle(fmt, a), target)
        db == AngleDistance(SpeakerAngle(fmt, b), target)
    IN  da < db \/ (da = db /\ a < b)

\* C18: in both formats and for every target angle in (-180, 180],
\* _amplitude_pan selects as first and second channel the two non-LFE channels
\* at the smallest distance from the target, the lower channel index winning a
\* tie for the first as for the second place, and the same target always gives
\* the same selection; in 7.1 the target 60 degrees (the L output at yaw 30)
\* selects L at distance 30, then LS at distance 50, with the weights
\* cos(t*pi/2) = 0.83147 and sin(t*pi/2) = 0.55557 for t = 30/80.
C18_TwoClosestLowerIndexFirst ==
    /\ \A p \in PanCalls :
        /\ p.target > -180 /\ p.target <= 180
        /\ p.ch1 \in Channels(format) \ {LFE}
        /\ p.ch2 \in Channels(format) \ {LFE, p.ch1}
        /\ p.dist1 = AngleDistance(SpeakerAngle(format, p.ch1), p.target)
        /\ p.dist2 = AngleDistance(SpeakerAngle(format, p.ch2), p.target)
        /\ \A c \in Channels(format) \ {LFE, p.ch1} :
               CloserTo(format, p.target, p.ch1, c)
        /\ \A c \in Channels(format) \ {LFE, p.ch1, p.ch2} :
               CloserTo(format, p.target, p.ch2, c)
        /\ (format = "7.1" /\ p.target = 60) =>
               /\ p.ch1 = 0 /\ p.dist1 = 30
               /\ p.ch2 = 4 /\ p.dist2 = 50
               /\ Abs(p.weight1 - 83146961) <= Tol6
               /\ Abs(p.weight2 - 55557023) <= Tol6
    /\ \A p \in PanCalls : \A q \in PanCalls : p.target = q.target => p = q

\* the 7.1 rotator at yaw 30: the L output has the target 60, and the LB output
\* the target 180, where LB and RB are both at distance 30 and LB is first
C18_Witness ==
    /\ rot_pc = "stepped"
    /\ format = "7.1"
    /\ yaw_degrees = 30
    /\ pans[0].target = 60 /\ pans[0].ch1 = 0 /\ pans[0].ch2 = 4
    /\ pans[6].target = 180 /\ pans[6].dist1 = pans[6].dist2
    /\ pans[6].ch1 = 6 /\ pans[6].ch2 = 7
    /\ pans2[0].target = 61

\* the offset of a speaker from the target, in (-180, 180]: positive to one
\* side of the target, negative to the other
OffsetFrom(target, angle) ==
    LET diff == (angle - target) % 360
    IN  IF diff > 180 THEN diff - 360 ELSE diff

\* C19: the two channels blended for a target are adjacent speakers that
\* bracket it: the two are never both on the same side of the target, and no
\* other spatial speaker lies strictly between them on the arc that holds the
\* target.
C19_SelectedSpeakersBracketTarget ==
    \A p \in PanCalls :
        LET o1 == OffsetFrom(p.target, SpeakerAngle(format, p.ch1))
            o2 == OffsetFrom(p.target, SpeakerAngle(format, p.ch2))
            low == IF o1 < o2 THEN o1 ELSE o2
            high == IF o1 < o2 THEN o2 ELSE o1
        IN  /\ ~(o1 > 0 /\ o2 > 0)
            /\ ~(o1 < 0 /\ o2 < 0)
            /\ \A c \in Channels(format) \ {LFE, p.ch1, p.ch2} :
                   LET o == OffsetFrom(p.target, SpeakerAngle(format, c))
                   IN  ~(low < o /\ o < high)

(***************************************************************************)
(* Claims about StereoRotator (checked under SpecStereo).                  *)
(***************************************************************************)

\* C8: StereoRotator.rotate pans toward the left output for positive yaw: for
\* every yaw whose normalized value is in (0, 90], left_gain > right_gain, and
\* for every yaw whose normalized value is in [-90, 0), right_gain > left_gain.
C8_PositiveYawPansLeft ==
    st_pc = "done" =>
        /\ st_locals.yaw \in 1 .. 90 => st_locals.left_gain > st_locals.right_gain
        /\ st_locals.yaw \in -90 .. -1 => st_locals.right_gain > st_locals.left_gain

\* the frame holds one mono signal in both of its channels
MonoInBoth(frame) == \A s \in Samples(frame) : frame[s][0] = frame[s][1]

\* C9 as claimed: with the same mono signal in both channels and yaw = 90,
\* volume = 1, left_gain is 0 and right_gain is cos(-pi/4) (each within 1e-6),
\* so the left output is silent and the right output is the mono signal times
\* cos(-pi/4).
C9_Yaw90RightGainCosQuarterPi ==
    (st_pc = "done" /\ st_yaw_degrees = 90 /\ MonoInBoth(stereo_frame)) =>
        /\ st_locals.volume = ONE
        /\ Abs(st_locals.left_gain) <= Tol6
        /\ Abs(st_locals.right_gain - FixCos(-DivRound(PiFix, 4))) <= Tol6
        /\ \A s \in Samples(st_output) :
            /\ Abs(st_output[s][0]) <= Tol6
            /\ Abs(st_output[s][1] - MulFix(stereo_frame[s][0], FixCos(-DivRound(PiFix, 4))))
                   <= Tol6

\* C9 (amended): with the same mono signal in both channels and yaw = 90,
\* volume = 1, left_gain is 0 (within 1e-6) and right_gain is the pan law's
\* maximum cos(0) * 1 = 1, so the left output is silent and the right output is
\* the mono signal itself.
C9_Yaw90RightGainOne ==
    (st_pc = "done" /\ st_yaw_degrees = 90 /\ MonoInBoth(stereo_frame)) =>
        /\ st_locals.volume = ONE
        /\ Abs(st_locals.left_gain) <= Tol6
        /\ st_locals.right_gain = ONE
        /\ \A s \in Samples(st_output) :
            /\ Abs(st_output[s][0]) <= Tol6
            /\ st_output[s][1] = stereo_frame[s][0]

C9_Witness ==
    /\ st_pc = "done" /\ st_yaw_degrees = 90 /\ MonoInBoth(stereo_frame)
    /\ stereo_frame[1][0] > 0
    /\ st_output[1][1] = stereo_frame[1][1]

\* C10: for every yaw congruent to 0 mod 360, volume = 1 and left_gain =
\* right_gain; for every yaw congruent to 180 mod 360 (+180 and -180 alike),
\* volume = 0.2, pan_yaw = 0 and left_gain = right_gain.
C10_CentredFrontAndBack ==
    st_pc = "done" =>
        /\ st_yaw_degrees % 360 = 0 =>
            /\ st_locals.volume = ONE
            /\ st_locals.left_gain = st_locals.right_gain
        /\ st_yaw_degrees % 360 = 180 =>
            /\ st_locals.volume = ONE \div 5
            /\ st_locals.pan_yaw = 0
            /\ st_locals.left_gain = st_locals.right_gain

C10_Witness ==
    /\ st_pc = "done" /\ st_yaw_degrees = -180
    /\ st_locals.volume = ONE \div 5 /\ st_locals.pan_yaw = 0
    /\ st_locals.left_gain = st_locals.right_gain /\ st_locals.left_gain > 0

\* The part of C11 about the volume and the range of pan_yaw: the volume is 1
\* up to 90 degrees either side, beyond that it is strictly below the volume of
\* every smaller angle from 90 degrees on, it is 0.2 at 180 degrees, it never
\* leaves [0.2, 1], and pan_yaw lies in [-90, 90].
VolumeProfile ==
    LET l == st_locals
        abs_yaw == Abs(l.yaw)
    IN  /\ l.yaw = StereoNormalize(st_yaw_degrees)
        /\ (abs_yaw <= 90 => l.volume = ONE)
        /\ (abs_yaw > 90 => \A smaller \in 90 .. abs_yaw - 1 :
                                StereoVolume(smaller) > l.volume)
        /\ (abs_yaw = 180 => l.volume = ONE \div 5)
        /\ l.volume >= ONE \div 5
        /\ l.volume <= ONE
        /\ l.pan_yaw >= -90
        /\ l.pan_yaw <= 90

\* C11 as stated: for every input yaw the volume is 1 when |yaw| <= 90,
\* strictly decreasing in |yaw| on (90, 180], 0.2 at |yaw| = 180 and never
\* outside [0.2, 1]; pan_yaw is in [-90, 90] and has the sign of the normalized
\* yaw.
C11_VolumeAndSignedPanYaw ==
    st_pc = "done" =>
        /\ VolumeProfile
        /\ Sgn(st_locals.pan_yaw) = Sgn(st_locals.yaw)

\* C11 amended: the volume is as stated and pan_yaw is in [-90, 90]; pan_yaw has
\* the sign of the normalized yaw except at the normalized yaw 180 (directly
\* behind), where the yaw is positive and pan_yaw is 0.
C11_VolumeAndPanYawSignButBehind ==
    st_pc = "done" =>
        /\ VolumeProfile
        /\ (st_locals.yaw # 180 => Sgn(st_locals.pan_yaw) = Sgn(st_locals.yaw))
        /\ (st_locals.yaw = 180 => st_locals.pan_yaw = 0)

\* a call directly behind, and the rear half being entered with a negative yaw
C11_Witness ==
    /\ st_pc = "done"
    /\ st_locals.yaw = 180
    /\ st_locals.pan_yaw = 0
    /\ st_locals.volume = ONE \div 5
    /\ st_yaw_degrees # 180

(***************************************************************************)
(* Claims about StereoTo71Upmixer (checked under SpecUpmix).               *)
(***************************************************************************)
\* the difference signal left - right of a run of stereo sample-sets
DiffLeft(stream) == [i \in 1 .. Len(stream) |-> stream[i][0] - stream[i][1]]
\* and right - left
DiffRight(stream) == [i \in 1 .. Len(stream) |-> stream[i][1] - stream[i][0]]
\* a signal with its sign flipped
Negated(signal) == [i \in 1 .. Len(signal) |-> -signal[i]]

\* C12: across consecutive upmix calls on one instance, the LS/RS (and in 7.1
\* the LB/RB) output blocks put one after the other are the scaled difference
\* signal of the input blocks put one after the other, delayed by the
\* instance's number of samples: the last `delay` samples of a block come out
\* at the start of the next block.
C12_DelayContinuesAcrossBlocks ==
    LET ls == Delayed(DiffLeft(up_inputs), upmixer.surround_delay_samples)
        rs == Delayed(DiffRight(up_inputs), upmixer.surround_delay_samples)
        lb == Delayed(Negated(DiffLeft(up_inputs)), upmixer.rear_delay_samples)
        rb == Delayed(Negated(DiffRight(up_inputs)), upmixer.rear_delay_samples)
    IN  \A i \in 1 .. Len(up_outputs) :
            /\ up_outputs[i][4] = MulFix(ls[i], (7 * ONE) \div 10)
            /\ up_outputs[i][5] = MulFix(rs[i], (7 * ONE) \div 10)
            /\ upmixer.format = "7.1" =>
                   /\ up_outputs[i][6] = MulFix(lb[i], ONE \div 2)
                   /\ up_outputs[i][7] = MulFix(rb[i], ONE \div 2)

\* C13: in both formats, for every sample of every block, whatever its
\* position in the block and whatever was upmixed before, channel 0 is the left
\* input, channel 1 the right input and channel 2 their mean (L + R) / 2.
C13_FrontPassThroughAndCentreMean ==
    /\ Len(up_outputs) = Len(up_inputs)
    /\ \A i \in 1 .. Len(up_inputs) :
        /\ up_outputs[i][0] = up_inputs[i][0]
        /\ up_outputs[i][1] = up_inputs[i][1]
        /\ Abs(2 * up_outputs[i][2] - (up_inputs[i][0] + up_inputs[i][1])) <= 1

\* a second call whose block differs from the first one's, with a sample whose
\* channels differ
C13_Witness ==
    /\ up_calls = 2
    /\ Len(up_inputs) = 2 * MaxBlockLen
    /\ up_inputs[1] # up_inputs[Len(up_inputs)]
    /\ up_output[Len(up_output)][0] = -ONE \div 2
    /\ up_output[Len(up_output)][1] = ONE \div 4
    /\ up_output[Len(up_output)][2] = -ONE \div 8

\* C17: the upmixer's LFE cutoff and its side and rear delays are those of the
\* configuration (LFE_CUTOFF_HZ, SURROUND_DECORRELATION_MS and
\* REAR_DECORRELATION_MS): the filter is designed with the configured cutoff and
\* channels 4/5 and 6/7 are delayed by ms * sample_rate / 1000 samples.
C17_UpmixerUsesConfiguration ==
    LET surround_delay ==
            (config.SURROUND_DECORRELATION_MS * upmixer.sample_rate) \div 1000
        rear_delay == (config.REAR_DECORRELATION_MS * upmixer.sample_rate) \div 1000
        ls == Delayed(DiffLeft(up_input), surround_delay)
        rs == Delayed(DiffRight(up_input), surround_delay)
        lb == Delayed(Negated(DiffLeft(up_input)), rear_delay)
        rb == Delayed(Negated(DiffRight(up_input)), rear_delay)
    IN  /\ upmixer.lfe_filter.cutoff = config.LFE_CUTOFF_HZ
        /\ upmixer.surround_delay_samples = surround_delay
        /\ upmixer.rear_delay_samples = rear_delay
        /\ \A s \in 1 .. Len(up_output) :
            /\ up_output[s][3].sosfilt.cutoff = config.LFE_CUTOFF_HZ
            /\ up_output[s][4] = MulFix(ls[s], (7 * ONE) \div 10)
            /\ up_output[s][5] = MulFix(rs[s], (7 * ONE) \div 10)
            /\ upmixer.format = "7.1" =>
                   /\ up_output[s][6] = MulFix(lb[s], ONE \div 2)
                   /\ up_output[s][7] = MulFix(rb[s], ONE \div 2)

\* channel ch of the last upmix output is zero at every sample
SilentChannel(ch) == \A s \in 1 .. Len(up_output) : up_output[s][ch] = 0

\* C22: within one upmix call of N samples, with side delay ds and rear delay
\* dr in samples: LS is 0.7 * (L - R) delayed by ds and RS is 0.7 * (R - L)
\* delayed by ds, both 0 in the first ds samples, so RS = -LS; in 7.1 only, LB
\* is -0.5 * (L - R) delayed by dr and RB is -0.5 * (R - L) delayed by dr, both
\* 0 in the first dr samples; in 5.1 the output has no channels 6 and 7; a
\* block no longer than a delay gives an all-zero channel; identical L and R
\* give all-zero surround channels.
C22_SurroundsAreDelayedDifference ==
    up_calls > 0 =>
        LET N == Len(up_input)
            ds == upmixer.surround_delay_samples
            dr == upmixer.rear_delay_samples
            L(s) == up_input[s][0]
            R(s) == up_input[s][1]
        IN  /\ Len(up_output) = N
            /\ \A s \in 1 .. N :
                /\ s <= ds => up_output[s][4] = 0 /\ up_output[s][5] = 0
                /\ s > ds =>
                    /\ Abs(10 * up_output[s][4] - 7 * (L(s - ds) - R(s - ds))) <= 5
                    /\ Abs(10 * up_output[s][5] - 7 * (R(s - ds) - L(s - ds))) <= 5
                /\ up_output[s][5] = -up_output[s][4]
                /\ upmixer.format = "5.1" => DOMAIN up_output[s] = 0 .. 5
                /\ upmixer.format = "7.1" =>
                    /\ DOMAIN up_output[s] = 0 .. 7
                    /\ s <= dr => up_output[s][6] = 0 /\ up_output[s][7] = 0
                    /\ s > dr =>
                        /\ Abs(2 * up_output[s][6] + (L(s - dr) - R(s - dr))) <= 1
                        /\ Abs(2 * up_output[s][7] + (R(s - dr) - L(s - dr))) <= 1
            /\ N <= ds => SilentChannel(4) /\ SilentChannel(5)
            /\ (upmixer.format = "7.1" /\ N <= dr) => SilentChannel(6) /\ SilentChannel(7)
            /\ (\A s \in 1 .. N : L(s) = R(s)) =>
                \A ch \in 4 .. upmixer.num_channels - 1 : SilentChannel(ch)

\* a 7.1 call of two samples with delays 0 and 1: LS follows the difference at
\* once, LB is silent for one sample and then carries half the first
\* difference, inverted
C22_Witness ==
    /\ up_calls > 0
    /\ upmixer.format = "7.1"
    /\ upmixer.surround_delay_samples = 0
    /\ upmixer.rear_delay_samples = 1
    /\ up_input = <<Stereo(ONE, 0), Stereo(-ONE \div 2, ONE \div 4)>>
    /\ up_output[1][4] = (7 * ONE) \div 10
    /\ up_output[2][5] = (21 * ONE) \div 40
    /\ up_output[1][6] = 0
    /\ up_output[2][6] = -ONE \div 2
    /\ up_output[2][7] = ONE \div 2

(***************************************************************************)
(* Claims about AudioIO (checked under SpecAudioIO).                       *)
(***************************************************************************)
\* C15: the stream callback never propagates a processing failure.  At every
\* invocation, whatever the invocation before did: a returned frame with fewer
\* channels than output_channels is zero-padded to output_channels and a
\* warning is printed; of a frame with more channels the extra ones are
\* dropped; when processing raises, a sample-count mismatch included, the whole
\* output block is zeros; and in each case the block written has the device's
\* shape, block_size x output_channels.
C15_FailuresBecomePaddingOrSilence ==
    io_call # <<>> =>
        LET frames == audio_io.block_size
            output_channels == audio_io.output_channels
            result == io_call.result
        IN  /\ Len(outdata) = frames
            /\ \A s \in 1 .. frames : DOMAIN outdata[s] = 0 .. output_channels - 1
            /\ io_call.raised => outdata = Zeros(frames, output_channels)
            /\ (~io_call.raised /\ Len(result) # frames) =>
                   outdata = Zeros(frames, output_channels)
            /\ (~io_call.raised /\ Len(result) = frames) =>
                   /\ \A s \in 1 .. frames : \A ch \in 0 .. output_channels - 1 :
                          outdata[s][ch] =
                              IF ch < NumCols(result) THEN result[s][ch] ELSE 0
                   /\ NumCols(result) < output_channels =>
                          \E i \in 1 .. Len(printed) : printed[i] = "warning"

(***************************************************************************)
(* Claims about AudioRotationApp and the tracker (checked under SpecApp).  *)
(***************************************************************************)
\* frame has the shape rows x cols
HasShape(frame, rows, cols) ==
    /\ Len(frame) = rows
    /\ \A s \in 1 .. rows : DOMAIN frame[s] = 0 .. cols - 1

\* the call of the rotator in the latest audio_callback
RotateCallOfBlock == app_calls[Len(app_calls)]

\* C14: every frame has the shape its format declares.  For a stereo input of
\* N samples, upmix returns N x 6 in 5.1 and N x 8 in 7.1, SurroundRotator.rotate
\* returns N x num_channels, StereoRotator.rotate returns N x 2, and
\* audio_callback returns N x output_channels, output_channels being the 2, 6
\* or 8 the audio stream was opened with; so for every block of any sequence.
C14_FramesHaveDeclaredShape ==
    app_calls # <<>> =>
        LET N == Len(io_call.stereo)
        IN  /\ N = audio_io.block_size
            /\ HasShape(io_call.stereo, N, 2)
            /\ audio_io.output_channels \in {2, 6, 8}
            /\ audio_io.output_channels = app.output_channels
            /\ HasShape(io_call.result, N, audio_io.output_channels)
            /\ HasShape(outdata, N, audio_io.output_channels)
            /\ outdata = io_call.result
            /\ printed = <<>>
            /\ app.is_stereo_mode => HasShape(RotateCallOfBlock.returned, N, 2)
            /\ ~app.is_stereo_mode =>
                   /\ HasShape(app_calls[3].returned, N,
                               IF app.upmixer.format = "5.1" THEN 6 ELSE 8)
                   /\ HasShape(RotateCallOfBlock.returned, N,
                               NumChannels(app.rotator.format))
                   /\ app.upmixer.format = app.rotator.format

\* a second block in 5.1, of more than one sample, with six channels out
C14_Witness ==
    /\ app_blocks = 2
    /\ ~app.is_stereo_mode
    /\ app.rotator.format = "5.1"
    /\ Len(outdata) = 2
    /\ DOMAIN outdata[2] = 0 .. 5
    /\ outdata[2][0] # 0

\* C16: under every interleaving of the tracking thread's updates and the
\* audio thread's blocks, the value audio_callback gets from get_yaw() is the
\* initial 0.0 or a value one tracker update wrote completely, namely the
\* latest completed write at the time of the read; and the read never waits
\* for the tracking thread: it can be made wherever that thread is.
C16_YawReadIsLatestCompleteWrite ==
    /\ yaw_read # <<>> =>
        /\ yaw_read.value = yaw_read.latest_write
        /\ yaw_read.value \in {0} \cup TrackerYaws
    /\ (audio_pc = "get_yaw" /\ app_blocks > 0) =>
        app_calls[1].returned = yaw_read.value
    /\ (audio_pc = "get_yaw" /\ app_blocks < MaxAppBlocks) => ENABLED AudioGetYaw

\* a read made between the tracking thread's evaluation of a new yaw and its
\* assignment: it returned the yaw of the update before, not the initial one
C16_Witness ==
    /\ audio_pc = "get_yaw"
    /\ app_blocks > 0
    /\ yaw_read.tracker_pc = "store"
    /\ yaw_read.value # 0
    /\ yaw_read.pending # yaw_read.value
    /\ app_calls[1].returned = yaw_read.value

\* C20: in every block audio_callback reads the tracker's yaw exactly once and
\* updates smoothed_yaw exactly once, from the yaw read, before any audio
\* processing; in surround mode it calls upmix on the input and then rotate on
\* what upmix returned; in stereo mode it never calls the upmixer and rotate
\* gets the stereo input itself; the rotator is always given the smoothed yaw
\* of this block, never the yaw as read from the tracker.
C20_ReadSmoothThenProcess ==
    app_calls # <<>> =>
        LET n == Len(app_calls)
            CallsOf(fn) == {i \in 1 .. n : app_calls[i].fn = fn}
        IN  /\ CallsOf("get_yaw") = {1}
            /\ CallsOf("_smooth_yaw") = {2}
            /\ CallsOf("rotate") = {n}
            /\ app_calls[2].new_yaw = app_calls[1].returned
            /\ app_calls[2].returned = smoothed_yaw
            /\ RotateCallOfBlock.yaw = smoothed_yaw
            /\ Abs(app_calls[1].returned - app_calls[2].before) > 1 =>
                   RotateCallOfBlock.yaw # app_calls[1].returned
            /\ io_call.result = RotateCallOfBlock.returned
            /\ app.is_stereo_mode =>
                   /\ n = 3
                   /\ CallsOf("upmix") = {}
                   /\ RotateCallOfBlock.frame = io_call.stereo
                   /\ RotateCallOfBlock.returned =
                          StereoRotate(io_call.stereo, smoothed_yaw).output
            /\ ~app.is_stereo_mode =>
                   /\ n = 4
                   /\ CallsOf("upmix") = {3}
                   /\ app_calls[3].stereo_frame = io_call.stereo
                   /\ RotateCallOfBlock.frame = app_calls[3].returned
                   /\ RotateCallOfBlock.returned =
                          Rotate(app.rotator.format, app_calls[3].returned, smoothed_yaw)

\* a second block in surround mode whose smoothed yaw differs from the yaw
\* read, from the smoothed yaw before and from zero
C20_Witness ==
    /\ app_blocks = 2
    /\ ~app.is_stereo_mode
    /\ Len(app_calls) = 4
    /\ smoothed_yaw # 0
    /\ smoothed_yaw # app_calls[1].returned
    /\ smoothed_yaw # app_calls[2].before
    /\ app_calls[2].before # 0
    /\ RotateCallOfBlock.yaw = smoothed_yaw

\* the smoothing factor the application was given, in hundredths; without one
\* it is config.SMOOTHING_FACTOR
SuppliedFactor ==
    IF app.supplied_smoothing_factor = {} THEN 85
    ELSE CHOOSE f \in app.supplied_smoothing_factor : TRUE

\* C21: for every smoothing factor f in [0, 1] the application is given, 0 and
\* 1 included, and every sequence of tracker yaws, smoothed_yaw starts at 0.0
\* and after each block is f * previous smoothed_yaw + (1 - f) * tracker yaw
\* with that f (to the nearest degree); so it lies between the previous
\* smoothed value and the yaw read, and with f = 0 it is the yaw read.
C21_SmoothedYawIsMovingAverage ==
    /\ app_blocks = 0 => smoothed_yaw = 0
    /\ (app_blocks > 0 /\ audio_pc = "get_yaw") =>
        LET f == SuppliedFactor
            before == app_calls[2].before
            tracker == app_calls[1].returned
            low == IF before < tracker THEN before ELSE tracker
            high == IF before < tracker THEN tracker ELSE before
        IN  /\ Abs(100 * smoothed_yaw - (f * before + (100 - f) * tracker)) <= 50
            /\ low <= smoothed_yaw
            /\ smoothed_yaw <= high
            /\ f = 0 => smoothed_yaw = tracker
            /\ tracker = yaw_read.value

(***************************************************************************)
(* Specifications: one per component, the other components standing idle. *)
(***************************************************************************)
SpecRotator == InitRotator /\ [][NextRotator]_vars

SpecStereo == InitStereo /\ [][NextStereo]_vars

SpecUpmix == InitUpmix /\ [][NextUpmix]_vars

SpecAudioIO == InitAudioIO /\ [][NextAudioIO]_vars

SpecApp == InitApp /\ [][NextApp]_vars

====
